---------------------------- MODULE Spec2Model ----------------------------
(***************************************************************************)
(* Model of calculator::entities::Probability<EventName, Value> and of     *)
(* CreateProbability (include/calculator/entities/probability.h).          *)
(*                                                                         *)
(* A client program declares objects among Objects and calls the class's  *)
(* operations on them, one call per step.  EventName is any type; its     *)
(* values are numbered in their own order, 0 being the value-initialised   *)
(* (empty) name.  Value is a floating-point type; the                      *)
(* model draws its values from the integer-valued ones of a small range,   *)
(* on which IEEE addition is exact, so `+` below is the code's `+=`.       *)
(***************************************************************************)
EXTENDS Integers, FiniteSets, Sequences, TLC

MaxName == 1        \* event names 0..MaxName
MaxValue == 2       \* values -MaxValue..MaxValue
StackLimit == 3     \* call frames the stack holds
MaxRun == 2         \* longest run of repeated calls the history follows

Objects == {"a", "b", "c"}     \* the objects a client can declare
Few == {"a", "b"}              \* the objects the general client declares
EventName == 0..MaxName
Value == -MaxValue..MaxValue

VARIABLES obj, live, status, last, start, link

vars == <<obj, live, status, last, start, link>>

----------------------------------------------------------------------------
(* Value categories and overload resolution *)

Category == {"lvalue", "const_lvalue", "xvalue", "const_xvalue", "prvalue"}

\* The arguments the client passes: a named variable or a temporary.
ArgCategory == {"lvalue", "prvalue"}

\* std::move(x): static_cast<remove_reference_t<T>&&>(x). It keeps const.
StdMove(cat) ==
  IF cat \in {"const_lvalue", "const_xvalue"} THEN "const_xvalue" ELSE "xvalue"

\* T&& binds to non-const rvalues only; const T& binds to everything.
BindsRvalueRef(cat) == cat \in {"xvalue", "prvalue"}

\* Of the pair f(const T&), f(T&&), the one overload resolution selects.
Overload(cat) == IF BindsRvalueRef(cat) THEN "move" ELSE "copy"

----------------------------------------------------------------------------
(* The class *)

Probability == [event_name_ : EventName, value_ : Value]

\* The storage of an object that has not been constructed.
Raw == [event_name_ |-> 0, value_ |-> 0]

\* `Probability p;` : the defaulted default constructor default-initialises
\* the members, neither of which has an initialiser. value_ is a
\* floating-point member and is left indeterminate; event_name_ is the empty
\* name where EventName's default constructor sets it (std::string) and
\* indeterminate where it does not (int, a struct of scalars).
DefaultInit == {[event_name_ |-> n, value_ |-> v] : n \in EventName, v \in Value}

\* `Probability p{};` : the constructor is not user-provided, so the object
\* is zero-initialised first.
ValueInit == [event_name_ |-> 0, value_ |-> 0]

\* Probability(const EventName&, const Value&): the records a call can
\* construct. The constructor is declared in the class and has no definition:
\* the header, which holds the definitions of the template's members, gives
\* none. A program that calls it does not link, and no record is constructed.
ConstructCopy(name, value) == {}

\* Probability(EventName&&, Value&&): declared in the class, with no
\* definition either; a call constructs no record.
ConstructMove(name, value) == {}

\* Probability(const Probability&) = default
CopyConstruct(other) ==
  [event_name_ |-> other.event_name_, value_ |-> other.value_]

\* Probability(Probability&&) noexcept = default:
\* <<the new object, other afterwards>>. Each member is moved: the new object
\* takes both; other keeps its value_ (a scalar) and is left with a valid
\* event_name_ that is not specified (empty for std::string, the same for int).
MoveConstruct(other) ==
  {<< [event_name_ |-> other.event_name_, value_ |-> other.value_],
      [other EXCEPT !.event_name_ = n] >> : n \in EventName}

\* operator=(Probability&&) noexcept = default:
\* <<this afterwards, other afterwards>>
MoveAssign(self, other) ==
  {<< [self EXCEPT !.event_name_ = other.event_name_, !.value_ = other.value_],
      [other EXCEPT !.event_name_ = n] >> : n \in EventName}

\* An assignment that copies the name and forgets the value.
CopyAssignNameOnly(self, other) ==
  [self EXCEPT !.event_name_ = other.event_name_]

\* operator=(const Probability&) = default
CopyAssign(self, other) ==
  [self EXCEPT !.event_name_ = other.event_name_, !.value_ = other.value_]

GetEventName(self) == self.event_name_

\* A getter that returns a fresh Value instead of the member.
GetValueZero(self) == 0

GetValue(self) == self.value_

\* A setter that rebuilds the record from the name alone.
SetEventNameMoveResets(self, new_event_name) ==
  [event_name_ |-> new_event_name, value_ |-> 0]

\* SetEventName(EventName&&)
SetEventNameMove(self, new_event_name) ==
  [self EXCEPT !.event_name_ = new_event_name]

\* A call of SetEventName with an argument of category cat, `frames` frames
\* being in use once it is entered: the outcomes the call can have, each the
\* client's status, the record and how the call was left.
\* The by-copy overload copies its argument and then passes
\* std::move(new_event_name), a const rvalue, which selects the by-copy
\* overload again. Every frame holds its event_name_copy: where copying an
\* EventName allocates, the allocation can fail, and the call is then left
\* by std::bad_alloc with the record as it was and the client running on.
RECURSIVE SetEventName(_, _, _, _)
SetEventName(self, new_event_name, cat, frames) ==
  IF Overload(cat) = "move"
  THEN {[status |-> "running", exit |-> "returned",
         obj |-> SetEventNameMove(self, new_event_name)]}
  ELSE LET event_name_copy == new_event_name
           arg == StdMove("const_lvalue")
       IN  {[status |-> "running", exit |-> "bad_alloc", obj |-> self]}
           \cup
           IF frames = StackLimit
           THEN {[status |-> "stack_overflow", exit |-> "none", obj |-> self]}
           ELSE (IF Overload(arg) = "copy"
                 THEN {[status |-> "hang", exit |-> "none", obj |-> self]}
                 ELSE {})
                \cup SetEventName(self, new_event_name, arg, frames + 1)

\* A setter that keeps the value within [0, 1].
SetValueMoveClamped(self, new_value) ==
  [self EXCEPT !.value_ = IF new_value < 0 THEN 0
                          ELSE IF new_value > 1 THEN 1 ELSE new_value]

\* SetValue(Value&&)
SetValueMove(self, new_value) == [self EXCEPT !.value_ = new_value]

\* A call of SetValue. The by-copy overload passes std::move(value_copy),
\* a non-const rvalue, which selects the by-move overload. Copying a Value,
\* a floating-point number, allocates nothing.
RECURSIVE SetValue(_, _, _, _)
SetValue(self, new_value, cat, frames) ==
  IF Overload(cat) = "move"
  THEN {[status |-> "running", exit |-> "returned",
         obj |-> SetValueMove(self, new_value)]}
  ELSE LET value_copy == new_value
           arg == StdMove("lvalue")
       IN  IF frames = StackLimit
           THEN {[status |-> "stack_overflow", exit |-> "none", obj |-> self]}
           ELSE (IF Overload(arg) = "copy"
                 THEN {[status |-> "hang", exit |-> "none", obj |-> self]}
                 ELSE {})
                \cup SetValue(self, value_copy, arg, frames + 1)

\* An increment that keeps the value within [0, 1].
ChangeValueClamped(self, value_changing) ==
  LET sum == self.value_ + value_changing
  IN  [self EXCEPT !.value_ = IF sum < 0 THEN 0 ELSE IF sum > 1 THEN 1 ELSE sum]

ChangeValue(self, value_changing) ==
  [self EXCEPT !.value_ = @ + value_changing]

\* A swap that exchanges the names and forgets the values.
SwapNamesOnly(self, other) ==
  << [self EXCEPT !.event_name_ = other.event_name_],
     [other EXCEPT !.event_name_ = self.event_name_] >>

\* Swap: <<this afterwards, other afterwards>>
Swap(self, other) ==
  << [self EXCEPT !.event_name_ = other.event_name_, !.value_ = other.value_],
     [other EXCEPT !.event_name_ = self.event_name_, !.value_ = self.value_] >>


----------------------------------------------------------------------------
(* Comparison *)

\* The comparison category of each member's own operator<=>, in declaration
\* order: EventName's is a total order; a floating-point Value's is partial.
MemberCategory ==
  [event_name_ |-> "strong_ordering", value_ |-> "partial_ordering"]

\* The return type operator<=> is declared with.
DeclaredReturnType == "bool"

\* Whether static_cast<R>(x <=> y) is well-formed for a member whose
\* comparison has category cat. No comparison category converts to bool.
ConvertsTo(cat, R) ==
  CASE R = "partial_ordering" -> TRUE
    [] R = "weak_ordering"    -> cat \in {"weak_ordering", "strong_ordering"}
    [] R = "strong_ordering"  -> cat = "strong_ordering"
    [] OTHER                  -> FALSE

\* A defaulted operator<=> is defined as deleted when the synthesized
\* three-way comparison of type R is not defined for some member.
SpaceshipDeleted ==
  \E m \in DOMAIN MemberCategory : ~ConvertsTo(MemberCategory[m], DeclaredReturnType)

\* The member-wise three-way comparison a defaulted operator<=> performs:
\* the first member that differs decides.
ThreeWay(self, other) ==
  IF self.event_name_ # other.event_name_
  THEN (IF self.event_name_ < other.event_name_ THEN -1 ELSE 1)
  ELSE IF self.value_ # other.value_
  THEN (IF self.value_ < other.value_ THEN -1 ELSE 1)
  ELSE 0

\* `self < other` is rewritten to (self <=> other) < 0: the values the
\* expression can have. It has none when operator<=> is deleted.
Less(self, other) ==
  IF SpaceshipDeleted THEN {} ELSE {ThreeWay(self, other) < 0}

\* `self == other`: the operator== declared implicitly with the defaulted
\* operator<=>, member-wise equality.
Equal(self, other) ==
  self.event_name_ = other.event_name_ /\ self.value_ = other.value_

----------------------------------------------------------------------------
(* The factory function *)

\* The members declared after `private:`.
PrivateMembers == {"event_name_", "value_"}

\* The functions the class declares as friends: none.
Friends == {}

\* Whether the non-member function fn may name the member.
Accessible(fn, member) == member \notin PrivateMembers \/ fn \in Friends

\* CreateProbability(event_name, value): the records a call can return.
\* The function is not a friend of the class; where it cannot name the
\* members it assigns, its instantiation is ill-formed and returns nothing.
CreateProbability(event_name, value) ==
  IF /\ Accessible("CreateProbability", "event_name_")
     /\ Accessible("CreateProbability", "value_")
  THEN {[new_instance EXCEPT !.event_name_ = event_name, !.value_ = value] :
          new_instance \in DefaultInit}
  ELSE {}

----------------------------------------------------------------------------
(* History kept for the properties *)

\* The entry `last` holds for a call: the operation, the object it is called
\* on, its other operand, its arguments, the overload selected, what it
\* returned and how it was left. For ChangeValue, val is the sum of the
\* deltas of the run.
Log(op, self, other, name, val, overload, ret) ==
  [op |-> op, self |-> self, other |-> other, name |-> name, val |-> val,
   overload |-> overload, ret |-> ret, count |-> 1, exit |-> "returned"]

NoStart == [self |-> Raw, other |-> Raw]

NoLink == [on |-> FALSE, copy |-> "a", orig |-> "a", snap |-> Raw,
           copyTouched |-> FALSE, origTouched |-> FALSE]

\* link after a call that may have written the objects of S.
Touch(S) ==
  IF ~link.on THEN link
  ELSE LET ct == link.copyTouched \/ link.copy \in S
           ot == link.origTouched \/ link.orig \in S
       IN  IF ct /\ ot THEN NoLink
           ELSE [link EXCEPT !.copyTouched = ct, !.origTouched = ot]

\* link after dst has been made a copy of src.
Linked(dst, src) ==
  [on |-> TRUE, copy |-> dst, orig |-> src, snap |-> obj[src],
   copyTouched |-> FALSE, origTouched |-> FALSE]

\* Whether the call (op, self, other) continues the run `last` belongs to.
Continues(op, self, other) ==
  /\ last.op = op /\ last.self = self /\ last.other = other
  /\ last.count < MaxRun

----------------------------------------------------------------------------
(* The client's steps *)

Init ==
  /\ obj = [r \in Objects |-> Raw]
  /\ live = {}
  /\ status = "running"
  /\ last = Log("none", "a", "a", 0, 0, "none", {})
  /\ start = NoStart
  /\ link = NoLink

\* Probability<EventName, Value> r;
DoDefaultInit(r) ==
  /\ status = "running" /\ r \notin live
  /\ \E p \in DefaultInit : obj' = [obj EXCEPT ![r] = p]
  /\ live' = live \cup {r}
  /\ last' = Log("DefaultInit", r, r, 0, 0, "none", {})
  /\ start' = NoStart
  /\ link' = Touch({r})
  /\ UNCHANGED status

\* Probability<EventName, Value> r{};
DoValueInit(r) ==
  /\ status = "running" /\ r \notin live
  /\ obj' = [obj EXCEPT ![r] = ValueInit]
  /\ live' = live \cup {r}
  /\ last' = Log("ValueInit", r, r, 0, 0, "none", {})
  /\ start' = NoStart
  /\ link' = Touch({r})
  /\ UNCHANGED status

\* Probability<EventName, Value> r(name, value); both arguments of category
\* cat. Where the constructor selected has no definition the program cannot
\* be built, and r is not constructed.
DoConstruct(r, name, value, cat) ==
  /\ status = "running" /\ r \notin live
  /\ LET made == IF Overload(cat) = "move"
                 THEN ConstructMove(name, value)
                 ELSE ConstructCopy(name, value)
     IN  IF made = {}
         THEN /\ status' = "ill_formed"
              /\ UNCHANGED <<obj, live>>
         ELSE /\ \E p \in made : obj' = [obj EXCEPT ![r] = p]
              /\ live' = live \cup {r}
              /\ UNCHANGED status
  /\ last' = Log("Construct", r, r, name, value, Overload(cat), {})
  /\ start' = NoStart
  /\ link' = Touch({r})

\* Probability<EventName, Value> r(src);
DoCopyConstruct(r, src) ==
  /\ status = "running" /\ r \notin live /\ src \in live
  /\ obj' = [obj EXCEPT ![r] = CopyConstruct(obj[src])]
  /\ live' = live \cup {r}
  /\ last' = Log("CopyConstruct", r, src, 0, 0, "none", {})
  /\ start' = NoStart
  /\ link' = Linked(r, src)
  /\ UNCHANGED status

\* r = src; src may be r itself, which makes no copy of another record.
DoCopyAssign(r, src) ==
  /\ status = "running" /\ r \in live /\ src \in live
  /\ obj' = [obj EXCEPT ![r] = CopyAssign(obj[r], obj[src])]
  /\ last' = Log("CopyAssign", r, src, 0, 0, "none", {})
  /\ start' = NoStart
  /\ link' = IF r = src THEN Touch({r}) ELSE Linked(r, src)
  /\ UNCHANGED <<live, status>>

\* Probability<EventName, Value> r(std::move(src));
DoMoveConstruct(r, src) ==
  /\ status = "running" /\ r \notin live /\ src \in live
  /\ \E now \in MoveConstruct(obj[src]) :
       obj' = [[obj EXCEPT ![r] = now[1]] EXCEPT ![src] = now[2]]
  /\ live' = live \cup {r}
  /\ last' = Log("MoveConstruct", r, src, 0, 0, "none", {})
  /\ start' = NoStart
  /\ link' = Touch({r, src})
  /\ UNCHANGED status

\* r = std::move(src); src may be r itself: the record is then the target
\* and the moved-from source at once, and is left as the source is.
DoMoveAssign(r, src) ==
  /\ status = "running" /\ r \in live /\ src \in live
  /\ \E now \in MoveAssign(obj[r], obj[src]) :
       obj' = [[obj EXCEPT ![r] = now[1]] EXCEPT ![src] = now[2]]
  /\ last' = Log("MoveAssign", r, src, 0, 0, "none", {})
  /\ start' = NoStart
  /\ link' = Touch({r, src})
  /\ UNCHANGED <<live, status>>

\* auto r = CreateProbability(name, value);
DoCreateProbability(r, name, value) ==
  /\ status = "running" /\ r \notin live
  /\ LET made == CreateProbability(name, value)
     IN  IF made = {}
         THEN /\ status' = "ill_formed"
              /\ UNCHANGED <<obj, live>>
         ELSE /\ \E p \in made : obj' = [obj EXCEPT ![r] = p]
              /\ live' = live \cup {r}
              /\ UNCHANGED status
  /\ last' = Log("CreateProbability", r, r, name, value, "none", {})
  /\ start' = NoStart
  /\ link' = Touch({r})

\* r.GetEventName();
DoGetEventName(r) ==
  /\ status = "running" /\ r \in live
  /\ last' = Log("GetEventName", r, r, 0, 0, "none", {GetEventName(obj[r])})
  /\ start' = NoStart
  /\ UNCHANGED <<obj, live, status, link>>

\* r.GetValue();
DoGetValue(r) ==
  /\ status = "running" /\ r \in live
  /\ last' = Log("GetValue", r, r, 0, 0, "none", {GetValue(obj[r])})
  /\ start' = NoStart
  /\ UNCHANGED <<obj, live, status, link>>

\* r.SetEventName(name); the argument of category cat
DoSetEventName(r, name, cat) ==
  /\ status = "running" /\ r \in live
  /\ \E out \in SetEventName(obj[r], name, cat, 1) :
       /\ obj' = [obj EXCEPT ![r] = out.obj]
       /\ status' = out.status
       /\ last' = [Log("SetEventName", r, r, name, 0, Overload(cat), {})
                     EXCEPT !.exit = out.exit]
  /\ start' = NoStart
  /\ link' = Touch({r})
  /\ UNCHANGED live

\* r.SetValue(value); the argument of category cat
DoSetValue(r, value, cat) ==
  /\ status = "running" /\ r \in live
  /\ \E out \in SetValue(obj[r], value, cat, 1) :
       /\ obj' = [obj EXCEPT ![r] = out.obj]
       /\ status' = out.status
       /\ last' = [Log("SetValue", r, r, 0, value, Overload(cat), {})
                     EXCEPT !.exit = out.exit]
  /\ start' = NoStart
  /\ link' = Touch({r})
  /\ UNCHANGED live

\* r.ChangeValue(d); the sums stay within the values of the model
DoChangeValue(r, d) ==
  /\ status = "running" /\ r \in live
  /\ obj[r].value_ + d \in Value
  /\ obj' = [obj EXCEPT ![r] = ChangeValue(obj[r], d)]
  /\ IF Continues("ChangeValue", r, r)
     THEN /\ last' = [last EXCEPT !.val = @ + d, !.count = @ + 1]
          /\ UNCHANGED start
     ELSE /\ last' = Log("ChangeValue", r, r, 0, d, "none", {})
          /\ start' = [self |-> obj[r], other |-> obj[r]]
  /\ link' = Touch({r})
  /\ UNCHANGED <<live, status>>

\* r.Swap(s);
DoSwap(r, s) ==
  /\ status = "running" /\ r \in live /\ s \in live
  /\ LET now == Swap(obj[r], obj[s])
     IN  obj' = [[obj EXCEPT ![r] = now[1]] EXCEPT ![s] = now[2]]
  /\ IF Continues("Swap", r, s)
     THEN /\ last' = [last EXCEPT !.count = @ + 1]
          /\ UNCHANGED start
     ELSE /\ last' = Log("Swap", r, s, 0, 0, "none", {})
          /\ start' = [self |-> obj[r], other |-> obj[s]]
  /\ link' = Touch({r, s})
  /\ UNCHANGED <<live, status>>

\* r == s;
DoEqual(r, s) ==
  /\ status = "running" /\ r \in live /\ s \in live
  /\ last' = Log("Equal", r, s, 0, 0, "none", {Equal(obj[r], obj[s])})
  /\ start' = NoStart
  /\ UNCHANGED <<obj, live, status, link>>

\* r < s;
DoLess(r, s) ==
  /\ status = "running" /\ r \in live /\ s \in live
  /\ LET ret == Less(obj[r], obj[s])
     IN  /\ last' = Log("Less", r, s, 0, 0, "none", ret)
         /\ status' = IF ret = {} THEN "ill_formed" ELSE "running"
  /\ start' = NoStart
  /\ UNCHANGED <<obj, live, link>>

\* The general client: two objects, every operation, every argument.
Next ==
  \/ \E r \in Few : DoDefaultInit(r)
  \/ \E r \in Few : DoValueInit(r)
  \/ \E r \in Few, n \in EventName, v \in Value, c \in ArgCategory :
       DoConstruct(r, n, v, c)
  \/ \E r, s \in Few : DoCopyConstruct(r, s)
  \/ \E r, s \in Few : DoCopyAssign(r, s)
  \/ \E r, s \in Few : DoMoveConstruct(r, s)
  \/ \E r, s \in Few : DoMoveAssign(r, s)
  \/ \E r \in Few, n \in EventName, v \in Value : DoCreateProbability(r, n, v)
  \/ \E r \in Few : DoGetEventName(r)
  \/ \E r \in Few : DoGetValue(r)
  \/ \E r \in Few, n \in EventName, c \in ArgCategory : DoSetEventName(r, n, c)
  \/ \E r \in Few, v \in Value, c \in ArgCategory : DoSetValue(r, v, c)
  \/ \E r \in Few, d \in Value : DoChangeValue(r, d)
  \/ \E r, s \in Few : DoSwap(r, s)
  \/ \E r, s \in Few : DoEqual(r, s)
  \/ \E r, s \in Few : DoLess(r, s)

Spec == Init /\ [][Next]_vars

\* The values a copying client stores.
Unit == 0..1

\* A client that copies records and then goes on calling the mutators: three
\* objects, so that a copy can be swapped with a record that is not its
\* original, and values kept within [0, 1].
NextCopy ==
  \/ \E r \in Objects : DoValueInit(r)
  \/ \E r, s \in Objects : DoCopyConstruct(r, s)
  \/ \E r, s \in Objects : DoCopyAssign(r, s)
  \/ \E r, s \in Objects : DoMoveConstruct(r, s)
  \/ \E r, s \in Objects : DoMoveAssign(r, s)
  \/ \E r \in Objects, n \in EventName, c \in ArgCategory : DoSetEventName(r, n, c)
  \/ \E r \in Objects, v \in Unit, c \in ArgCategory : DoSetValue(r, v, c)
  \/ \E r \in Objects, d \in -1..1 :
       obj[r].value_ + d \in Unit /\ DoChangeValue(r, d)
  \/ \E r, s \in Objects : DoSwap(r, s)

SpecCopy == Init /\ [][NextCopy]_vars

----------------------------------------------------------------------------
(* Properties *)

\* The object the last call was made on, and its other operand.
Self == obj[last.self]

Other == obj[last.other]

\* C1: a record constructed from (n, v), by the by-copy or the by-move
\* constructor, returns n from GetEventName() and v from GetValue().
C1_ConstructRoundTrip ==
  last.op = "Construct" =>
    /\ status = "running"
    /\ last.self \in live
    /\ GetEventName(Self) = last.name
    /\ GetValue(Self) = last.val

\* C2: every call r.SetEventName(n), with n passed as a copy or as a move,
\* returns, and GetEventName() is n right after it.
C2_SetEventNameReturns ==
  last.op = "SetEventName" =>
    /\ status = "running" /\ last.exit = "returned"
    /\ GetEventName(Self) = last.name

\* C3: after r.SetValue(v), with v passed as a copy or as a move, GetValue()
\* returns v, whatever v is: nothing is rejected or clamped.
C3_SetValueStores ==
  last.op = "SetValue" =>
    /\ status = "running" /\ last.exit = "returned"
    /\ GetValue(Self) = last.val

C3_Witness ==
  /\ last.op = "SetValue" /\ last.overload = "copy"
  /\ GetValue(Self) > 1
  /\ \E r \in live : GetValue(obj[r]) < 0

\* C4: after r.ChangeValue(d), GetValue() is the value before the call plus
\* d; after a run ChangeValue(d1), ..., ChangeValue(dk) it is the value before
\* the run plus d1 + ... + dk, not clamped to [0, 1].
C4_ChangeValueAdds ==
  last.op = "ChangeValue" =>
    GetValue(Self) = GetValue(start.self) + last.val

C4_Witness ==
  /\ last.op = "ChangeValue" /\ last.count = 2
  /\ GetValue(start.self) \in 0..1 /\ last.val # 0
  /\ GetValue(Self) \notin 0..1

\* C5: after a.Swap(b), a holds what b held and b holds what a held; after a
\* second a.Swap(b) in a row both hold what they held at first.
C5_SwapExchanges ==
  last.op = "Swap" =>
    IF last.count % 2 = 1
    THEN Self = start.other /\ Other = start.self
    ELSE Self = start.self /\ Other = start.other

C5_Witness ==
  /\ last.op = "Swap" /\ last.count = 2 /\ last.self # last.other
  /\ GetEventName(Self) # GetEventName(Other)
  /\ GetValue(Self) # GetValue(Other)

\* The order the comparison is specified to be: by event_name first, by
\* value among equal event names.
LexLess(x, y) ==
  \/ x.event_name_ < y.event_name_
  \/ x.event_name_ = y.event_name_ /\ x.value_ < y.value_

\* C6: the comparison of two records serves for ordering as well as for
\* equality: a < b has a value, and it is the lexicographic order on
\* (event_name, value).
C6_OrderingLexicographic ==
  last.op = "Less" =>
    /\ status = "running"
    /\ last.ret = {LexLess(Self, Other)}

\* C7: CreateProbability(n, v) returns a record in the state direct
\* construction from (n, v) gives: GetEventName() is n and GetValue() is v.
C7_CreateProbabilityConstructs ==
  last.op = "CreateProbability" =>
    /\ status = "running"
    /\ last.self \in live
    /\ Self = [event_name_ |-> last.name, value_ |-> last.val]
    /\ GetEventName(Self) = last.name
    /\ GetValue(Self) = last.val

\* C8: a copy, made by copy construction or by copy assignment, starts with
\* the event_name and value of the original; from then on, the original keeps
\* them for as long as no call is made on the original itself (as the object
\* called on, the target of an assignment, the source of a move or the
\* operand of a Swap), whatever
\* SetEventName, SetValue, ChangeValue and Swap calls are made on the copy;
\* and the copy likewise while the calls are made on the original.
C8_CopyIndependent ==
  link.on =>
    /\ ~link.origTouched => obj[link.orig] = link.snap
    /\ ~link.copyTouched => obj[link.copy] = link.snap

C8_Witness ==
  /\ link.on /\ link.copyTouched /\ ~link.origTouched
  /\ last.op = "Swap" /\ last.self = link.copy
  /\ last.other \notin {link.copy, link.orig}
  /\ GetEventName(obj[link.copy]) # GetEventName(obj[link.orig])
  /\ GetValue(obj[link.copy]) # GetValue(obj[link.orig])

\* C9: a default-constructed record has value zero and the empty event name
\* before any setter is called.
C9_DefaultConstructedZero ==
  last.op = "DefaultInit" =>
    /\ GetValue(Self) = 0
    /\ GetEventName(Self) = 0

\* C10: GetEventName() and GetValue() change no field; SetEventName leaves
\* value unchanged; SetValue and ChangeValue leave event_name unchanged; and
\* none of them changes a field of another record.
C10_Frame ==
  [][ LET r == last'.self
          RestSame == \A s \in Objects \ {r} : obj'[s] = obj[s]
      IN  /\ last'.op \in {"GetEventName", "GetValue"} => obj' = obj
          /\ last'.op = "SetEventName" =>
               obj'[r].value_ = obj[r].value_ /\ RestSame
          /\ last'.op \in {"SetValue", "ChangeValue"} =>
               obj'[r].event_name_ = obj[r].event_name_ /\ RestSame
    ]_vars

C10_Witness ==
  /\ last.op = "SetEventName" /\ status = "running"
  /\ live = Few
  /\ GetEventName(Self) = MaxName /\ GetValue(Self) < 0
  /\ \E s \in Few \ {last.self} :
       GetEventName(obj[s]) = 0 /\ GetValue(obj[s]) > 1

============================================================================
